---- MODULE Spec2Model ----
(***************************************************************************)
(* The Strapi content fetcher of src/src/lib/strapi.ts: fetchApi with its  *)
(* retry loop, and the exported helpers built on it (plain, safe and        *)
(* validating variants for single types and collections).                   *)
(*                                                                          *)
(* JavaScript strings are sequences of tokens (a token is an indivisible    *)
(* piece of text); String.prototype.includes is Includes below.  JavaScript *)
(* values are records tagged by t.  Each invocation c of an exported helper *)
(* has its own copy of the locals of the helper and of fetchApi; it         *)
(* suspends at the two await points of fetchApi: the request (await fetch)  *)
(* and the inter-retry delay (await new Promise(setTimeout)).               *)
(***************************************************************************)
EXTENDS Integers, Sequences, FiniteSets, TLC

VARIABLES pc, opts, request, attempt, lastError, log, last, retried,
          apiOutcome, outcome, warnings, proxy, media

vars == <<pc, opts, request, attempt, lastError, log, last, retried,
          apiOutcome, outcome, warnings, proxy, media>>

(***************************************************************************)
(* Bounds of the model.                                                     *)
(***************************************************************************)
MaxItems == 2
MaxPopulateLen == 2
MaxPopulateItems == 2
MaxWidth == 5

(***************************************************************************)
(* Program constants.                                                       *)
(***************************************************************************)
maxRetries == 10
retryDelay == 1000
HTTP_NOT_FOUND == 404
STRAPI_URL == <<"https://api.example.com">>

Calls == {"c1", "c2"}

(***************************************************************************)
(* Strings.                                                                 *)
(***************************************************************************)
\* the text of lines 388 and 416 between the two uses of contentTypeName
NotFoundText ==
    " content not found in Strapi. Please:\n1. Create and publish the content in the Strapi admin panel\n2. Go to Settings > Users & Permissions Plugin > Roles > Public\n3. Enable \"find\" permission for \""

\* The pairs <<token, phrase>> where phrase is a proper substring of token.
SubstringFacts ==
    { <<"fetch failed", "fetch">>,
      <<"Failed to fetch ", "fetch">>,
      <<"Failed to fetch content from Strapi: ", "fetch">>,
      <<"Failed to connect to Strapi at ", "Failed to connect">>,
      <<"Failed to connect to database", "Failed to connect">>,
      <<"Requested content not found", "content not found">>,
      <<NotFoundText, "content not found">>,
      <<"https://example.media.strapiapp.com", ".media.strapiapp.com">>,
      <<"https://api.example.com.evil.example", "https://api.example.com">> }

TokenIncludes(tok, phrase) == tok = phrase \/ <<tok, phrase>> \in SubstringFacts

\* The pairs <<token, phrase>> where token starts with phrase.
PrefixFacts ==
    { <<NotFoundText, " content not found">>,
      <<"https://api.example.com", "https://">>,
      <<"https://example.media.strapiapp.com", "https://">>,
      <<"https://cdn.example.com", "https://">>,
      <<"https://external.com", "https://">>,
      <<"https://api.example.com.evil.example", "https://">>,
      <<"http://external.com", "http://">>,
      <<"/uploads/", "/">> }

TokenStartsWith(tok, phrase) == tok = phrase \/ <<tok, phrase>> \in PrefixFacts

\* String.prototype.includes
Includes(s, phrase) == \E i \in 1..Len(s) : TokenIncludes(s[i], phrase)

\* String.prototype.startsWith, for a one-token prefix
StartsWith(s, tok) == Len(s) > 0 /\ s[1] = tok

(***************************************************************************)
(* JavaScript values and errors.                                            *)
(***************************************************************************)
Undefined == [t |-> "undefined"]
Null == [t |-> "null"]
Obj(i) == [t |-> "object", id |-> i]
Arr(items) == [t |-> "array", items |-> items]
Str(s) == [t |-> "string", chars |-> s]

\* ToBoolean, for the values of the model
Truthy(v) ==
    CASE v.t = "undefined" -> FALSE
      [] v.t = "null" -> FALSE
      [] v.t = "string" -> Len(v.chars) > 0
      [] OTHER -> TRUE

IsArray(v) == v.t = "array"

\* a || b on strings, with undefined written as the empty sequence
OrElse(a, b) == IF Len(a) > 0 THEN a ELSE b

Err(type, message) == [type |-> type, message |-> message]
NoError == [type |-> "none", message |-> <<>>]

Return(v) == [kind |-> "return", value |-> v, error |-> NoError]
Throw(e) == [kind |-> "throw", value |-> Undefined, error |-> e]
Continue == [kind |-> "continue", value |-> Undefined, error |-> NoError]
Pending == [kind |-> "pending", value |-> Undefined, error |-> NoError]

(***************************************************************************)
(* What the backend can answer to one request.                              *)
(***************************************************************************)
\* the statuses of the backend's errors: 404 and one that is not 404
ErrorStatuses == { HTTP_NOT_FOUND, 500 }

BackendMessages ==
    { <<>>, <<"Not Found">>, <<"Failed to connect to database">>,
      <<"Requested content not found">> }

NoEnvelopeError == [status |-> 0, message |-> <<>>, present |-> FALSE]
EnvelopeError(status, message) ==
    [status |-> status, message |-> message, present |-> TRUE]

\* A parsed JSON body { data?, error? }, or a body that is not JSON.
Envelope(data, error) == [kind |-> "envelope", data |-> data, error |-> error]
InvalidJson == [kind |-> "invalid", data |-> Undefined, error |-> NoEnvelopeError]

Arrays == { Arr([i \in 1..n |-> Obj(i)]) : n \in 0..MaxItems }
DataValues == { Undefined, Null, Obj(1) } \cup Arrays

DataBodies == { Envelope(d, NoEnvelopeError) : d \in DataValues }
ErrorBodies ==
    { Envelope(Null, EnvelopeError(s, m)) :
        s \in ErrorStatuses, m \in BackendMessages }

NoResponse ==
    [kind |-> "none", ok |-> FALSE, status |-> 0, statusText |-> <<>>,
     body |-> InvalidJson, error |-> NoError]
Rejected(e) ==
    [kind |-> "rejected", ok |-> FALSE, status |-> 0, statusText |-> <<>>,
     body |-> InvalidJson, error |-> e]
Http(ok, status, statusText, body) ==
    [kind |-> "http", ok |-> ok, status |-> status, statusText |-> statusText,
     body |-> body, error |-> NoError]

\* The values a rejected fetch carries.
RejectionErrors ==
    { Err("TypeError", <<"fetch failed">>),
      Err("TypeError", <<"Load failed">>),
      Err("Error", <<"Network error">>) }

\* res.status with a res.statusText that goes with it ('' under HTTP/2).
StatusLines ==
    UNION { { <<st, <<>>>>,
              <<st, IF st = HTTP_NOT_FOUND THEN <<"Not Found">>
                                           ELSE <<"Internal Server Error">>>> } :
            st \in ErrorStatuses }

\* The body of a non-2xx response: not JSON, or the backend's error envelope.
NotOkBodies(status) ==
    {InvalidJson} \cup
    { Envelope(Null, EnvelopeError(status, m)) : m \in BackendMessages }

NotOkResponses ==
    UNION { { Http(FALSE, sl[1], sl[2], b) : b \in NotOkBodies(sl[1]) } :
            sl \in StatusLines }

OkResponses ==
    { Http(TRUE, 200, <<"OK">>, b) :
        b \in {InvalidJson} \cup ErrorBodies \cup DataBodies }

\* The claims' words for a response: a recoverable 404, a rejected request,
\* a success (2xx envelope without error), or another error.
Class(res) ==
    CASE res.kind = "rejected" -> "rejected"
      [] res.kind = "http" /\ ~res.ok ->
            IF res.status = HTTP_NOT_FOUND THEN "404" ELSE "error"
      [] res.kind = "http" /\ res.ok /\ res.body.kind = "invalid" -> "error"
      [] res.kind = "http" /\ res.ok /\ res.body.error.present ->
            IF res.body.error.status = HTTP_NOT_FOUND THEN "404" ELSE "error"
      [] res.kind = "http" /\ res.ok -> "success"
      [] OTHER -> "none"

(***************************************************************************)
(* fetchApi, src/src/lib/strapi.ts lines 13-99.                             *)
(***************************************************************************)
\* mutant: the last retry is given up one attempt early
HasRetriesLeft_OffByOne(a) == a < maxRetries - 2

\* mutant: a retry is always granted
HasRetriesLeft_Always(a) == TRUE

\* attempt < maxRetries - 1 (lines 43, 56 and 83)
HasRetriesLeft(a) == a < maxRetries - 1

\* mutant: the delay grows with the attempt
DelayMs_Backoff(a) == retryDelay * (a + 1)

\* the delay of one retry: setTimeout(resolve, retryDelay)
DelayMs(a) == retryDelay

\* endpoint.startsWith('/') ? endpoint.slice(1) : endpoint
NormalizeEndpoint(endpoint) ==
    IF StartsWith(endpoint, "/") THEN Tail(endpoint) ELSE endpoint

\* new URL(`${STRAPI_URL}/api/${endpoint}`) with every query entry appended
BuildUrl(endpoint, query) ==
    [origin |-> STRAPI_URL,
     path |-> <<"/api/">> \o NormalizeEndpoint(endpoint),
     params |-> query]

\* errorData.error?.message, errorData being the parsed body or {}
ErrorDataMessage(body) ==
    IF body.kind = "envelope" /\ body.error.present
    THEN body.error.message ELSE <<>>

\* the error of lines 47-49
HttpError(res) ==
    Err("Error",
        <<"Strapi API error (", ToString(res.status), "): ">> \o
        OrElse(ErrorDataMessage(res.body),
               OrElse(res.statusText, <<"Unknown error">>)))

\* the error of lines 60-62
EnvelopeErrorOf(body) ==
    Err("Error",
        <<"Strapi API error: ">> \o
        OrElse(body.error.message, <<"Unknown error">>))

\* the error of lines 87-89
FailedToConnectError ==
    Err("Error",
        <<"Failed to connect to Strapi at ">> \o STRAPI_URL \o
        <<" after ", ToString(maxRetries),
          " attempts. Make sure Strapi is running.">>)

\* mutant: a null value under the key is taken for a failure
Unwrap_NullThrows(body, wrappedByKey, wrappedByList) ==
    IF body.data = Null \/ body.data = [t |-> "array", items |-> <<>>]
    THEN Throw(Err("Error", <<"Strapi API error: ", "Unknown error">>))
    ELSE Return(body.data)

\* data[wrappedByKey] and data[0] (lines 65-71); wrappedByKey is <<>> when
\* absent.  Indexing null or undefined throws a TypeError.
Unwrap(body, wrappedByKey, wrappedByList) ==
    LET keyed == IF Len(wrappedByKey) = 0
                 THEN [t |-> "envelope", body |-> body]
                 ELSE IF wrappedByKey = <<"data">> THEN body.data
                 ELSE Undefined
    IN  IF ~wrappedByList THEN Return(keyed)
        ELSE IF keyed.t \in {"null", "undefined"}
        THEN Throw(Err("TypeError",
                       <<"Cannot read properties of ", keyed.t,
                         " (reading '0')">>))
        ELSE IF keyed.t = "array" /\ Len(keyed.items) > 0
        THEN Return(keyed.items[1])
        ELSE Return(Undefined)

\* The try block (lines 38-73) of attempt a, once the request has settled
\* with res: continue (after the delay), return or throw.
TryBlock(a, res, o) ==
    IF res.kind = "rejected" THEN Throw(res.error)
    ELSE IF ~res.ok
    THEN IF res.status = HTTP_NOT_FOUND /\ HasRetriesLeft(a)
         THEN Continue
         ELSE Throw(HttpError(res))
    ELSE IF res.body.kind = "invalid"
    THEN Throw(Err("SyntaxError", <<"Unexpected token < in JSON at position 0">>))
    ELSE IF res.body.error.present
    THEN IF res.body.error.status = HTTP_NOT_FOUND /\ HasRetriesLeft(a)
         THEN Continue
         ELSE Throw(EnvelopeErrorOf(res.body))
    ELSE Unwrap(res.body, o.wrappedByKey, o.wrappedByList)

\* error instanceof Error ? error : new Error(String(error)) (line 75)
ToError(e) == IF e.type = "nonError" THEN Err("Error", e.message) ELSE e

\* mutant: the TypeError test is dropped
IsNetworkError_MessageOnly(e) == Includes(e.message, "Failed to connect")

\* the test of lines 78-82
IsNetworkError(e) ==
    \/ e.type = "TypeError" /\ Includes(e.message, "fetch")
    \/ Includes(e.message, "Failed to connect")

\* The catch block (lines 74-94) of attempt a for the thrown value e.
CatchBlock(a, e) ==
    IF IsNetworkError(ToError(e))
    THEN IF HasRetriesLeft(a) THEN Continue ELSE Throw(FailedToConnectError)
    ELSE Throw(ToError(e))

\* One iteration of the loop from the settled request on.
LoopBody(a, res, o) ==
    LET t == TryBlock(a, res, o)
    IN  IF t.kind = "throw" THEN CatchBlock(a, t.error) ELSE t

\* lastError after the iteration (assigned in the catch block only)
LastErrorAfter(a, res, o, before) ==
    LET t == TryBlock(a, res, o)
    IN  IF t.kind = "throw" THEN ToError(t.error) ELSE before

(***************************************************************************)
(* The exported helpers, src/src/lib/strapi.ts lines 277-428.               *)
(***************************************************************************)
Variants ==
    { "fetchSingleType", "fetchCollection",
      "safeFetchSingleType", "safeFetchCollection",
      "fetchSingleTypeWithValidation", "fetchCollectionWithValidation" }

IsCollection(variant) ==
    variant \in { "fetchCollection", "safeFetchCollection",
                  "fetchCollectionWithValidation" }
IsSafe(variant) == variant \in { "safeFetchSingleType", "safeFetchCollection" }
IsValidating(variant) ==
    variant \in { "fetchSingleTypeWithValidation",
                  "fetchCollectionWithValidation" }

RECURSIVE Join(_, _)
\* Array.prototype.join
Join(items, sep) ==
    IF Len(items) = 0 THEN <<>>
    ELSE IF Len(items) = 1 THEN items[1]
    ELSE items[1] \o sep \o Join(Tail(items), sep)

\* mutant: a populate that is not given becomes the wildcard
formatPopulateParam_DefaultAll(populate) ==
    IF populate.t = "undefined" \/ populate = Str(<<>>) \/ populate = Arr(<<>>)
    THEN Str(<<"*">>)
    ELSE IF populate.t = "array"
    THEN Str(Join(populate.items, <<",">>))
    ELSE populate

\* formatPopulateParam (lines 277-288); populate is Undefined, a string or an
\* array of strings
formatPopulateParam(populate) ==
    IF populate.t = "undefined" THEN Undefined
    ELSE IF \/ populate.t = "string" /\ populate.chars = <<>>
            \/ IsArray(populate) /\ Len(populate.items) = 0
    THEN Str(<<"*">>)
    ELSE IF IsArray(populate) THEN Str(Join(populate.items, <<",">>))
    ELSE populate

\* queryParams.populate = value on the object { ...query }: the entries of a
\* JavaScript object keep their insertion order
SetKey(query, key, value) ==
    IF \E i \in 1..Len(query) : query[i][1] = key
    THEN [i \in 1..Len(query) |->
            IF query[i][1] = key THEN <<key, value>> ELSE query[i]]
    ELSE Append(query, <<key, value>>)

\* the query fetchSingleType and fetchCollection hand to fetchApi
\* (lines 299-303 and 320-324)
QueryParams(query, populate) ==
    LET populateParam == formatPopulateParam(populate)
    IN  IF populateParam # Undefined
        THEN SetKey(query, "populate", populateParam.chars)
        ELSE query

\* the options fetchSingleType and fetchCollection call fetchApi with
\* (lines 304-308 and 325-329)
FetchApiOptions(o) ==
    [endpoint |-> o.endpoint,
     query |-> QueryParams(o.query, o.populate),
     wrappedByKey |-> <<"data">>,
     wrappedByList |-> FALSE]

\* contentTypeName || endpoint (lines 347 and 368)
WarnName(o) == OrElse(o.contentTypeName, o.endpoint)

\* the text of console.warn (lines 346-348 and 367-369)
WarnMessage(o, e) ==
    <<"Failed to fetch ">> \o WarnName(o) \o <<" from Strapi: ">> \o
    e.message \o <<".">>

\* mutant: the collection variant falls back to null too
SafeFallback_AlwaysNull(variant) == Null

\* the value a safe variant returns on error (lines 349 and 370)
SafeFallback(variant) == IF IsCollection(variant) THEN Arr(<<>>) ELSE Null

\* the error of lines 387-389 and 415-417
NotFoundError(contentTypeName) ==
    Err("Error",
        contentTypeName \o
        <<NotFoundText>>
        \o contentTypeName \o <<"\"">>)

\* the error of lines 396-398 and 424-426
WrappedError(contentTypeName, e) ==
    Err("Error",
        <<"Failed to fetch content from Strapi: ">> \o e.message \o
        <<". Make sure Strapi is running and the ">> \o contentTypeName \o
        <<" content type has public permissions enabled.">>)

\* mutant: the collection test forgets the empty array
IsAbsent_NoLengthTest(variant, data) == ~Truthy(data)

\* the absence tests of lines 386 and 414
IsAbsent(variant, data) ==
    IF IsCollection(variant)
    THEN ~Truthy(data) \/ ~IsArray(data) \/ Len(data.items) = 0
    ELSE ~Truthy(data)

\* error.message.includes('content not found') (lines 393 and 421)
IsContentNotFound(e) == Includes(e.message, "content not found")

\* the catch blocks of the validating variants (lines 392-399, 420-427)
ValidationCatch(o, e) ==
    IF IsContentNotFound(e) THEN Throw(e)
    ELSE Throw(WrappedError(o.contentTypeName, e))

\* What the helper does with the settled fetchApi promise r: its own outcome
\* and the warnings it logs.
Helper(o, r) ==
    CASE IsSafe(o.variant) ->
            IF r.kind = "throw"
            THEN [outcome |-> Return(SafeFallback(o.variant)),
                  warnings |-> <<WarnMessage(o, r.error)>>]
            ELSE [outcome |-> r, warnings |-> <<>>]
      [] IsValidating(o.variant) ->
            [outcome |->
                IF r.kind = "throw" THEN ValidationCatch(o, r.error)
                ELSE IF IsAbsent(o.variant, r.value)
                THEN ValidationCatch(o, NotFoundError(o.contentTypeName))
                ELSE r,
             warnings |-> <<>>]
      [] OTHER -> [outcome |-> r, warnings |-> <<>>]

(***************************************************************************)
(* The arguments of the invocations.  A contentTypeName or query that is    *)
(* not given is the empty sequence.                                         *)
(***************************************************************************)
Endpoints == { <<"about-page">>, <<"/", "projects">> }
ContentTypeNames == { <<>>, <<"About Page">> }

PopulateChars == { "a", "," }
PopulateStrings ==
    UNION { [1..n -> PopulateChars] : n \in 0..MaxPopulateLen }
PopulateLists ==
    UNION { [1..n -> PopulateStrings] : n \in 0..MaxPopulateItems }
Populates ==
    {Undefined} \cup { Str(s) : s \in PopulateStrings }
                \cup { Arr(l) : l \in PopulateLists }

Queries ==
    { <<>>,
      << <<"locale", <<"e", "n">>>> >>,
      << <<"populate", <<"d">>>> >>,
      << <<"populate", <<"d">>>>, <<"locale", <<"e", "n">>>> >> }

Options(variant, endpoint, query, populate, contentTypeName) ==
    [variant |-> variant, endpoint |-> endpoint, query |-> query,
     populate |-> populate, contentTypeName |-> contentTypeName]

NoOptions == Options("none", <<>>, <<>>, Undefined, <<>>)
NoUrl == [origin |-> <<>>, path |-> <<>>, params |-> <<>>]

RequestEvent == [e |-> "request", ms |-> 0]
DelayEvent(ms) == [e |-> "delay", ms |-> ms]

(***************************************************************************)
(* Percent-encoding.  A token is encoded and decoded as a whole; the tokens *)
(* that are not listed hold unreserved characters only.                     *)
(***************************************************************************)
\* The pairs <<text, encodeURIComponent(text)>> of the tokens that change.
PercentCodes ==
    { <<"https://api.example.com", "https%3A%2F%2Fapi.example.com">>,
      <<"https://example.media.strapiapp.com",
        "https%3A%2F%2Fexample.media.strapiapp.com">>,
      <<"https://cdn.example.com", "https%3A%2F%2Fcdn.example.com">>,
      <<"/uploads/", "%2Fuploads%2F">>,
      <<"uploads/", "uploads%2F">>,
      <<"/", "%2F">>,
      <<"?", "%3F">>,
      <<"=", "%3D">>,
      <<"&", "%26">>,
      <<" ", "%20">>,
      <<"%", "%25">>,
      <<"%20", "%2520">>,
      <<"%25", "%2525">> }

\* The tokens that are no escape sequence: a % that no two hexadecimal
\* digits follow.
MalformedEscapes == { "%" }

EncodeToken(tok) ==
    IF \E p \in PercentCodes : p[1] = tok
    THEN (CHOOSE p \in PercentCodes : p[1] = tok)[2]
    ELSE tok

DecodeToken(tok) ==
    IF \E p \in PercentCodes : p[2] = tok
    THEN (CHOOSE p \in PercentCodes : p[2] = tok)[1]
    ELSE tok

encodeURIComponent(s) == [i \in 1..Len(s) |-> EncodeToken(s[i])]

\* decodeURIComponent throws a URIError on a malformed escape sequence
CanDecode(s) == \A i \in 1..Len(s) : s[i] \notin MalformedEscapes
decodeURIComponent(s) == [i \in 1..Len(s) |-> DecodeToken(s[i])]

\* String.prototype.startsWith
HasPrefix(s, phrase) == Len(s) > 0 /\ TokenStartsWith(s[1], phrase)

(***************************************************************************)
(* The image proxy endpoint, GET of src/src/pages/api/image-proxy.ts.       *)
(***************************************************************************)
HTTP_OK == 200
HTTP_BAD_REQUEST == 400
HTTP_INTERNAL_SERVER_ERROR == 500

TextBody(s) == [kind |-> "text", chars |-> s, data |-> ""]
BytesBody(d) == [kind |-> "bytes", chars |-> <<>>, data |-> d]
NoBody == [kind |-> "none", chars |-> <<>>, data |-> ""]

\* new Response(text, { status })
TextResponse(text, status) ==
    [status |-> status, body |-> TextBody(text), headers |-> {}]
NoProxyResponse == [status |-> 0, body |-> NoBody, headers |-> {}]

\* response.headers.get('content-type') || 'image/jpeg'
ContentTypeOf(header) ==
    IF Truthy(header) THEN header.chars ELSE <<"image/jpeg">>

\* the response of lines 55-61
ImageResponse(imageData, contentType) ==
    [status |-> HTTP_OK,
     body |-> BytesBody(imageData),
     headers |-> { <<"Content-Type", contentType>>,
                   <<"Cache-Control",
                     <<"public, max-age=31536000, immutable">>>>,
                   <<"X-Content-Type-Options", <<"nosniff">>>> }]

\* mutant: the scheme is not tested
IsHttpUrl_AnyScheme(decodedUrl) == TRUE

IsHttpUrl(decodedUrl) ==
    HasPrefix(decodedUrl, "http://") \/ HasPrefix(decodedUrl, "https://")

\* strapiUrl && decodedUrl.includes(strapiUrl); the configured origin is one
\* token
IsStrapiApiUrl(decodedUrl, strapiUrl) ==
    Truthy(strapiUrl) /\ Includes(decodedUrl, strapiUrl.chars[1])

IsStrapiMediaCdn(decodedUrl) == Includes(decodedUrl, ".media.strapiapp.com")

\* What the handler does up to its first await: it answers at once, or
\* raises inside the try block, or requests decodedUrl from the upstream.
Answer(response) ==
    [kind |-> "answer", response |-> response, url |-> <<>>, error |-> NoError]
Raise(e) ==
    [kind |-> "raise", response |-> NoProxyResponse, url |-> <<>>, error |-> e]
Fetch(url) ==
    [kind |-> "fetch", response |-> NoProxyResponse, url |-> url,
     error |-> NoError]

URIError == Err("URIError", <<"URI malformed">>)

CheckRequest(imageUrl, strapiUrl) ==
    IF ~Truthy(imageUrl)
    THEN Answer(TextResponse(<<"Missing url parameter">>, HTTP_BAD_REQUEST))
    ELSE IF ~CanDecode(imageUrl.chars)
    THEN Raise(URIError)
    ELSE LET decodedUrl == decodeURIComponent(imageUrl.chars)
         IN  IF ~IsHttpUrl(decodedUrl)
             THEN Answer(TextResponse(<<"Invalid image URL: must be HTTP(S)">>,
                                      HTTP_BAD_REQUEST))
             ELSE IF ~IsStrapiApiUrl(decodedUrl, strapiUrl)
                     /\ ~IsStrapiMediaCdn(decodedUrl)
             THEN Answer(TextResponse(
                      <<"Invalid image URL: must be from Strapi API or media CDN">>,
                      HTTP_BAD_REQUEST))
             ELSE Fetch(decodedUrl)

\* mutant: every upstream failure is answered 502
FailedToFetchImage_BadGateway(status) ==
    TextResponse(<<"Failed to fetch image">>, 502)

\* the response to an upstream response that is not ok
FailedToFetchImage(status) == TextResponse(<<"Failed to fetch image">>, status)

\* mutant: the message of the exception is sent
InternalServerError_WithDetails(error) ==
    TextResponse(<<"Internal server error", ": ">> \o error.message,
                 HTTP_INTERNAL_SERVER_ERROR)

\* the response of the catch block
InternalServerError(error) ==
    TextResponse(<<"Internal server error">>, HTTP_INTERNAL_SERVER_ERROR)

\* The upstream's answer to fetch(decodedUrl), as far as the handler reads it
UpstreamResponse(ok, status, contentType) ==
    [ok |-> ok, status |-> status, contentType |-> contentType]
NoUpstreamResponse == UpstreamResponse(FALSE, 0, Null)

UpstreamErrorStatuses == { HTTP_NOT_FOUND, 403, HTTP_INTERNAL_SERVER_ERROR }
UpstreamContentTypes ==
    { Null, Str(<<>>), Str(<<"image/jpeg">>), Str(<<"image/png">>) }
UpstreamBodies == { "fake-image-data", "other-image-data" }
UpstreamFailures ==
    { Err("Error", <<"Network error">>), Err("TypeError", <<"fetch failed">>) }

\* The values of the url query parameter: absent, empty, or an origin
\* followed by a path and a query.
ProxyOrigins ==
    { "https://api.example.com", "https://example.media.strapiapp.com",
      "https://external.com", "http://external.com",
      "https://api.example.com.evil.example", "ftp://example.com", "file://",
      "https%3A%2F%2Fapi.example.com" }
ProxyTails ==
    { <<"/uploads/", "image", ".jpg">>,
      <<"/uploads/", "image", "%20", "with", "%20", "spaces", ".jpg">>,
      <<"/uploads/", "100", "%", ".jpg">>,
      <<"/", ".media.strapiapp.com", "/", "image", ".jpg">>,
      <<"/uploads/", "image", ".jpg", "?", "ref", "=",
        "https://api.example.com">> }
StrapiUrls == { Str(STRAPI_URL), Undefined }

\* The state of one request to the endpoint: where the handler is suspended
\* (pc), import.meta.env.STRAPI_URL (strapiUrl), the url parameter
\* (imageUrl), the URLs requested from the upstream, in order (upstream), the
\* upstream's response and body, the exceptions raised inside the try block
\* (raised), the console.error log (errors), and the handler's response.
ProxyIdle ==
    [pc |-> "idle", strapiUrl |-> Undefined, imageUrl |-> Null,
     upstream |-> <<>>, upstreamResponse |-> NoUpstreamResponse,
     upstreamBody |-> "", raised |-> <<>>, errors |-> <<>>,
     response |-> NoProxyResponse]

(***************************************************************************)
(* The media URL resolver, src/src/lib/strapi.ts lines 108-248.  dev is     *)
(* import.meta.env.DEV; the base origin import.meta.env.STRAPI_URL is       *)
(* STRAPI_URL.                                                              *)
(***************************************************************************)
\* The tokens that /\.(jpg|jpeg|png|gif|webp|svg|avif)/i matches.
ImageExtensions ==
    { ".jpg", ".jpeg", ".png", ".gif", ".webp", ".svg", ".avif", ".JPG",
      ".PNG" }

\* imageExtensionRegex.test(fullUrl): an extension that ends the text or
\* that a ? follows
IsImageUrl(fullUrl) ==
    \E i \in 1..Len(fullUrl) :
        /\ fullUrl[i] \in ImageExtensions
        /\ i = Len(fullUrl) \/ fullUrl[i + 1] = "?"

\* mutant: the proxy is used in development mode too
proxyImageUrl_IgnoresDev(imageUrl, dev) ==
    <<"/api/image-proxy?url=">> \o encodeURIComponent(imageUrl)

\* lines 108-121
proxyImageUrl(imageUrl, dev) ==
    IF dev THEN imageUrl
    ELSE <<"/api/image-proxy?url=">> \o encodeURIComponent(imageUrl)

\* mutant: the base origin is put before every url
FullUrl_AlwaysPrefixed(url) == STRAPI_URL \o url

\* fullUrl of line 133
FullUrl(url) == IF HasPrefix(url, "/") THEN STRAPI_URL \o url ELSE url

getStrapiMedia(url, useProxy, dev) ==
    IF ~Truthy(url) THEN <<>>
    ELSE LET fullUrl == FullUrl(url.chars)
         IN  IF useProxy /\ IsImageUrl(fullUrl)
             THEN proxyImageUrl(fullUrl, dev)
             ELSE fullUrl

\* mutant: every text parses
CanParseUrl_Always(text) == TRUE

\* new URL(text) succeeds: the text starts with a scheme
CanParseUrl(text) == HasPrefix(text, "https://") \/ HasPrefix(text, "http://")

\* new URL(text): what precedes the first ?, and the query after it, of the
\* form key=value&key=value, as the pairs <<key, value>>
ParseUrl(text) ==
    LET marks == { i \in 1..Len(text) : text[i] = "?" }
        start == IF marks = {} THEN Len(text) + 1
                 ELSE CHOOSE i \in marks : \A j \in marks : i <= j
        query == SubSeq(text, start + 1, Len(text))
    IN  [base |-> SubSeq(text, 1, start - 1),
         params |-> [i \in 1..((Len(query) + 1) \div 4) |->
                        <<query[4 * i - 3], query[4 * i - 1]>>]]

\* mutant: the pair is added after the pairs there are
SetParam_Append(params, key, value) == Append(params, <<key, value>>)

\* URLSearchParams.prototype.set: the first pair of the key takes the value
\* and the other pairs of the key are removed; without one, a pair is added
SetParam(params, key, value) ==
    LET n == Len(params)
        first(i) == params[i][1] = key /\ \A j \in 1..(i - 1) : params[j][1] # key
        kept[i \in 0..n] ==
            IF i = 0 THEN <<>>
            ELSE IF first(i) THEN Append(kept[i - 1], <<key, value>>)
            ELSE IF params[i][1] = key THEN kept[i - 1]
            ELSE Append(kept[i - 1], params[i])
    IN  IF \E i \in 1..n : params[i][1] = key
        THEN kept[n]
        ELSE Append(params, <<key, value>>)

\* url.toString()
UrlToString(url) ==
    LET n == Len(url.params)
        joined[i \in 0..n] ==
            IF i = 0 THEN <<>>
            ELSE joined[i - 1] \o (IF i = 1 THEN <<"?">> ELSE <<"&">>)
                               \o <<url.params[i][1], "=", url.params[i][2]>>
    IN  url.base \o joined[n]

\* MAX_FORMAT_SIZE_MULTIPLIER, 1.25, as the fraction 5/4
MAX_FORMAT_SIZE_MULTIPLIER == <<5, 4>>

\* mutant: the list in the opposite order
TierNames_Reversed == <<"thumbnail", "small", "medium", "large">>

\* the order of the list of lines 176-183
TierNames == <<"large", "medium", "small", "thumbnail">>

Tier(url, width) == [t |-> "object", url |-> url, width |-> width]
\* image.formats, an object; a tier that is not there is undefined
Formats(tiers) == [t |-> "object", tiers |-> tiers]
Image(url, formats) == [url |-> url, formats |-> formats]

\* formats of lines 176-184
PresentTiers(formats) ==
    SelectSeq([i \in 1..Len(TierNames) |->
                  [name |-> TierNames[i], format |-> formats.tiers[TierNames[i]]]],
              LAMBDA f : f.format # Undefined)

\* mutant: the band reaches below the width as well
IsSuitable_BelowToo(f, width) ==
    /\ f.format.width * MAX_FORMAT_SIZE_MULTIPLIER[1]
           >= width * MAX_FORMAT_SIZE_MULTIPLIER[2]
    /\ f.format.width * MAX_FORMAT_SIZE_MULTIPLIER[2]
           <= width * MAX_FORMAT_SIZE_MULTIPLIER[1]

\* the filter of lines 189-191
IsSuitable(f, width) ==
    /\ f.format.width >= width
    /\ f.format.width * MAX_FORMAT_SIZE_MULTIPLIER[2]
           <= width * MAX_FORMAT_SIZE_MULTIPLIER[1]

\* mutant: every tier counts as large enough
IsOversized_Any(f, width) == TRUE

\* the filter of line 206
IsOversized(f, width) == f.format.width >= width

\* mutant: the first tier of the list
SmallestOf_First(list) == list[1]

\* mutant: the last tier of the list
SmallestOf_Last(list) == list[Len(list)]

\* the scans of lines 195-200 and 208-213
SmallestOf(list) ==
    LET best[i \in 1..Len(list)] ==
            IF i = 1 THEN list[1]
            ELSE IF list[i].format.width < best[i - 1].format.width
                 THEN list[i] ELSE best[i - 1]
    IN  best[Len(list)]

\* mutant: the first tier of the list
LargestOf_First(list) == list[1]

\* the scan of lines 219-224
LargestOf(list) ==
    LET best[i \in 1..Len(list)] ==
            IF i = 1 THEN list[1]
            ELSE IF list[i].format.width > best[i - 1].format.width
                 THEN list[i] ELSE best[i - 1]
    IN  best[Len(list)]

\* lines 229-247: the original URL with width and format parameters
QueryFallback(image, width, format, useProxy, dev) ==
    LET baseUrlWithoutProxy == getStrapiMedia(image.url, FALSE, dev)
    IN  IF CanParseUrl(baseUrlWithoutProxy)
        THEN LET url == ParseUrl(baseUrlWithoutProxy)
                 sized == [url EXCEPT
                             !.params = SetParam(SetParam(@, "width",
                                                          ToString(width)),
                                                 "format", format)]
             IN  IF useProxy THEN proxyImageUrl(UrlToString(sized), dev)
                 ELSE UrlToString(sized)
        ELSE getStrapiMedia(image.url, useProxy, dev)

\* mutant: without a tier of the width or more, the original URL is used
formatImageUrlWithSize_NoUpscale(image, width, format, useProxy, dev) ==
    LET formats == IF Truthy(image.formats) THEN PresentTiers(image.formats)
                   ELSE <<>>
        oversizedFormats == SelectSeq(formats, LAMBDA f : IsOversized(f, width))
    IN  IF oversizedFormats # <<>>
        THEN getStrapiMedia(Str(SmallestOf(oversizedFormats).format.url),
                            useProxy, dev)
        ELSE QueryFallback(image, width, format, useProxy, dev)

formatImageUrlWithSize(image, width, format, useProxy, dev) ==
    LET formats == IF Truthy(image.formats) THEN PresentTiers(image.formats)
                   ELSE <<>>
        suitableFormats == SelectSeq(formats, LAMBDA f : IsSuitable(f, width))
        oversizedFormats == SelectSeq(formats, LAMBDA f : IsOversized(f, width))
    IN  IF suitableFormats # <<>>
        THEN getStrapiMedia(Str(SmallestOf(suitableFormats).format.url),
                            useProxy, dev)
        ELSE IF oversizedFormats # <<>>
        THEN getStrapiMedia(Str(SmallestOf(oversizedFormats).format.url),
                            useProxy, dev)
        ELSE IF formats # <<>>
        THEN getStrapiMedia(Str(LargestOf(formats).format.url), useProxy, dev)
        ELSE QueryFallback(image, width, format, useProxy, dev)

\* The arguments.  Every tier has a URL of its own; a tier is undefined or
\* has a width of 1..MaxWidth.
TierUrl(name) == <<"/uploads/", name, ".jpg">>
TierSet == { TierNames[i] : i \in 1..Len(TierNames) }
AllFormats ==
    { Formats([n \in TierSet |->
                  IF w[n] = 0 THEN Undefined ELSE Tier(TierUrl(n), w[n])]) :
        w \in [TierSet -> 0..MaxWidth] }
\* formats is not there, or none of its tiers is
NoTierFormats == { Undefined, Formats([n \in TierSet |-> Undefined]) }

DefaultUrl == <<"/uploads/", "test-image", ".jpg">>
MediaUrls ==
    { Str(<<>>),
      Str(DefaultUrl),
      Str(<<"/uploads/", "document", ".pdf">>),
      Str(<<"/uploads/", "my", "%20", "image", ".PNG">>),
      Str(<<"https://cdn.example.com", "/", "image", ".jpg">>),
      Str(<<"https://cdn.example.com", "/", "document", ".pdf">>),
      Str(<<"/uploads/", "test-image", ".jpg", "?", "width", "=", "10", "&",
            "format", "=", "png", "&", "v", "=", "2">>),
      Str(<<"https://cdn.example.com", "/", "image", ".jpg", "?", "width",
            "=", "10", "&", "v", "=", "2", "&", "width", "=", "20">>),
      Str(<<"/uploads/", "100", "%25", ".jpg">>),
      Str(<<"uploads/", "image", ".jpg">>),
      Str(<<"not-a-valid-url">>) }
ImageFormats == { "webp", "jpg", "png" }

\* A call of one of the two functions (op) with its arguments, and what it
\* returned.
MediaCall(op, image, width, format, useProxy, dev) ==
    [pc |-> "called", op |-> op, image |-> image, width |-> width,
     format |-> format, useProxy |-> useProxy, dev |-> dev, result |-> <<>>]

MediaCalls ==
    { MediaCall("getStrapiMedia", Image(u, Undefined), 0, "", p, d) :
        u \in MediaUrls \cup { Null }, p \in BOOLEAN, d \in BOOLEAN }
    \cup
    { MediaCall("formatImageUrlWithSize", Image(Str(DefaultUrl), f), w, "webp",
                p, d) :
        f \in AllFormats, w \in 1..MaxWidth, p \in BOOLEAN, d \in BOOLEAN }
    \cup
    { MediaCall("formatImageUrlWithSize", Image(u, f), w, fmt, p, d) :
        u \in MediaUrls, f \in NoTierFormats, w \in 1..MaxWidth,
        fmt \in ImageFormats, p \in BOOLEAN, d \in BOOLEAN }
    \cup
    { MediaCall("formatImageUrlWithSize", Image(u, f), w, fmt, p, d) :
        u \in MediaUrls,
        f \in { x \in AllFormats :
                  \A n \in TierSet \ { "medium" } : x.tiers[n] = Undefined },
        w \in 1..MaxWidth, fmt \in ImageFormats, p \in BOOLEAN,
        d \in BOOLEAN }

MediaIdle == [pc |-> "idle"]

\* context.url.searchParams.get('url') for a request of the path text: the
\* value after url=, percent-decoded by the URL parser
SearchParamsGet(text) ==
    IF text # <<>> /\ Head(text) = "/api/image-proxy?url="
    THEN Str(decodeURIComponent(Tail(text)))
    ELSE Null

\* The values of the url parameter: absent, empty, an origin followed by a
\* path and a query, or the value carried by a proxy URL that
\* getStrapiMedia returns.
ProxyParams ==
    { Null, Str(<<>>) }
        \cup { Str(<<o>> \o tail) : o \in ProxyOrigins, tail \in ProxyTails }
        \cup { SearchParamsGet(getStrapiMedia(u, TRUE, FALSE)) : u \in MediaUrls }

(***************************************************************************)
(* The state: for every invocation c, where it is suspended (pc), its       *)
(* arguments (opts), the URL it requests (request), the locals attempt and  *)
(* lastError of fetchApi, the requests it issued and the delays it took, in *)
(* order (log), the response to its latest answered request (last), the     *)
(* classes of the responses it answered with a retry (retried), how         *)
(* fetchApi settled (apiOutcome), how the helper settled (outcome), and the *)
(* console.warn texts it logged (warnings).                                 *)
(***************************************************************************)
InitFetch ==
    /\ pc = [c \in Calls |-> "idle"]
    /\ opts = [c \in Calls |-> NoOptions]
    /\ request = [c \in Calls |-> NoUrl]
    /\ attempt = [c \in Calls |-> 0]
    /\ lastError = [c \in Calls |-> NoError]
    /\ log = [c \in Calls |-> <<>>]
    /\ last = [c \in Calls |-> NoResponse]
    /\ retried = [c \in Calls |-> {}]
    /\ apiOutcome = [c \in Calls |-> Pending]
    /\ outcome = [c \in Calls |-> Pending]
    /\ warnings = [c \in Calls |-> <<>>]

Init == InitFetch /\ proxy = ProxyIdle /\ media = MediaIdle

\* A helper is called: it calls fetchApi, which builds the URL, enters the
\* loop with attempt = 0 and issues the first request (lines 19-39).
Invoke(c, o) ==
    /\ pc[c] = "idle"
    /\ opts' = [opts EXCEPT ![c] = o]
    /\ request' = [request EXCEPT
                     ![c] = BuildUrl(FetchApiOptions(o).endpoint,
                                     FetchApiOptions(o).query)]
    /\ attempt' = [attempt EXCEPT ![c] = 0]
    /\ log' = [log EXCEPT ![c] = <<RequestEvent>>]
    /\ pc' = [pc EXCEPT ![c] = "awaitFetch"]
    /\ UNCHANGED <<lastError, last, retried, apiOutcome, outcome, warnings>>
    /\ UNCHANGED <<proxy, media>>

\* The pending request of c settles with res: the rest of the iteration runs,
\* up to the delay of a retry, or to the end of fetchApi and of the helper.
Settle(c, res) ==
    LET o == opts[c]
        r == LoopBody(attempt[c], res, FetchApiOptions(o))
        h == Helper(o, r)
    IN  /\ pc[c] = "awaitFetch"
        /\ last' = [last EXCEPT ![c] = res]
        /\ lastError' = [lastError EXCEPT
               ![c] = LastErrorAfter(attempt[c], res, FetchApiOptions(o), @)]
        /\ IF r.kind = "continue"
           THEN /\ pc' = [pc EXCEPT ![c] = "awaitDelay"]
                /\ log' = [log EXCEPT
                              ![c] = Append(@, DelayEvent(DelayMs(attempt[c])))]
                /\ retried' = [retried EXCEPT ![c] = @ \cup {Class(res)}]
                /\ UNCHANGED <<apiOutcome, outcome, warnings>>
           ELSE /\ pc' = [pc EXCEPT ![c] = "done"]
                /\ apiOutcome' = [apiOutcome EXCEPT ![c] = r]
                /\ outcome' = [outcome EXCEPT ![c] = h.outcome]
                /\ warnings' = [warnings EXCEPT ![c] = @ \o h.warnings]
                /\ UNCHANGED <<log, retried>>
        /\ UNCHANGED <<opts, request, attempt, proxy, media>>

\* await fetch(url) rejects
FetchRejects(c) == \E e \in RejectionErrors : Settle(c, Rejected(e))

\* await fetch(url) resolves with a response that is not ok
ResponseNotOk(c) == \E res \in NotOkResponses : Settle(c, res)

\* await fetch(url) resolves with a 2xx response
ResponseOk(c) == \E res \in OkResponses : Settle(c, res)

\* mutant: the attempt counter is one module-level variable that every
\* invocation increments
TimerFires_SharedAttempt(c) ==
    /\ pc[c] = "awaitDelay"
    /\ attempt' = [d \in Calls |-> attempt[d] + 1]
    /\ IF attempt[c] + 1 < maxRetries
       THEN /\ pc' = [pc EXCEPT ![c] = "awaitFetch"]
            /\ log' = [log EXCEPT ![c] = Append(@, RequestEvent)]
            /\ UNCHANGED <<apiOutcome, outcome, warnings>>
       ELSE LET r == Throw(IF lastError[c] # NoError THEN lastError[c]
                           ELSE Err("Error", <<"Failed to fetch from Strapi">>))
            IN  /\ pc' = [pc EXCEPT ![c] = "done"]
                /\ apiOutcome' = [apiOutcome EXCEPT ![c] = r]
                /\ outcome' = [outcome EXCEPT ![c] = Helper(opts[c], r).outcome]
                /\ warnings' = [warnings EXCEPT
                                  ![c] = @ \o Helper(opts[c], r).warnings]
                /\ UNCHANGED log
    /\ UNCHANGED <<opts, request, lastError, last, retried, proxy, media>>

\* The delay of a retry is over: attempt++, and either the next request is
\* issued or the loop ends and line 98 throws.
TimerFires(c) ==
    /\ pc[c] = "awaitDelay"
    /\ attempt' = [attempt EXCEPT ![c] = @ + 1]
    /\ IF attempt[c] + 1 < maxRetries
       THEN /\ pc' = [pc EXCEPT ![c] = "awaitFetch"]
            /\ log' = [log EXCEPT ![c] = Append(@, RequestEvent)]
            /\ UNCHANGED <<apiOutcome, outcome, warnings>>
       ELSE LET r == Throw(IF lastError[c] # NoError THEN lastError[c]
                           ELSE Err("Error", <<"Failed to fetch from Strapi">>))
            IN  /\ pc' = [pc EXCEPT ![c] = "done"]
                /\ apiOutcome' = [apiOutcome EXCEPT ![c] = r]
                /\ outcome' = [outcome EXCEPT ![c] = Helper(opts[c], r).outcome]
                /\ warnings' = [warnings EXCEPT
                                  ![c] = @ \o Helper(opts[c], r).warnings]
                /\ UNCHANGED log
    /\ UNCHANGED <<opts, request, lastError, last, retried, proxy, media>>

(***************************************************************************)
(* Spec: one invocation of a helper, against every behaviour of the         *)
(* backend.  The six exported helpers are the callers of fetchApi in the    *)
(* repository; all of them pass wrappedByKey 'data' and no wrappedByList.   *)
(* Invocation c2 stays idle here.                                           *)
(***************************************************************************)
InvokeAny(c) ==
    \E v \in Variants, ep \in Endpoints, ctn \in ContentTypeNames :
        /\ IsValidating(v) \/ IsSafe(v) \/ ctn = <<>>
        /\ Invoke(c, Options(v, ep, <<>>, Undefined, ctn))

Next ==
    \/ InvokeAny("c1")
    \/ FetchRejects("c1")
    \/ ResponseNotOk("c1")
    \/ ResponseOk("c1")
    \/ TimerFires("c1")

Spec == Init /\ [][Next]_vars

(***************************************************************************)
(* Properties of the retry loop.                                            *)
(***************************************************************************)
\* the number of requests c has issued, and of delays it has taken
Requests(c) == Cardinality({ i \in 1..Len(log[c]) : log[c][i].e = "request" })
Delays(c) == Cardinality({ i \in 1..Len(log[c]) : log[c][i].e = "delay" })

\* last[c] is the answer to the latest request of c, and c has acted on it
Answered(c) == pc[c] \in {"awaitDelay", "done"}

\* every response c acted on before the latest one was a recoverable 404
OnlyNotFoundSoFar(c) ==
    IF pc[c] = "awaitDelay" /\ Class(last[c]) # "404"
    THEN FALSE ELSE retried[c] \subseteq {"404"}

\* C1: after N < 10 recoverable 404 answers (HTTP 404 or envelope error 404)
\* fetchApi goes on to request N+1, and when that request is answered by a
\* 2xx envelope without error it returns the value under the data key of that
\* response, having issued exactly N+1 requests.
C1_RetryThenSuccess ==
    \A c \in Calls :
        /\ ( /\ Answered(c) /\ Class(last[c]) = "404"
             /\ OnlyNotFoundSoFar(c)
             /\ Requests(c) < maxRetries )
           => pc[c] = "awaitDelay"
        /\ ( /\ Answered(c) /\ Class(last[c]) = "success"
             /\ OnlyNotFoundSoFar(c) )
           => /\ pc[c] = "done"
              /\ apiOutcome[c] = Return(last[c].body.data)
              /\ Requests(c) = attempt[c] + 1
              /\ Delays(c) = attempt[c]
              /\ attempt[c] < maxRetries

\* C1 witness: nine 404 answers, then a success that is returned.
C1_Witness ==
    \E c \in Calls :
        /\ pc[c] = "done" /\ apiOutcome[c].kind = "return"
        /\ retried[c] = {"404"} /\ Requests(c) = maxRetries

\* the error the code derives from a 404 response (lines 47-49 and 60-62)
NotFoundErrorOf(res) ==
    IF res.ok THEN EnvelopeErrorOf(res.body) ELSE HttpError(res)

\* C2: when every request of a call is answered by a 404, the call fails
\* after exactly 10 requests with the error derived from the 10th response,
\* not with the 'Failed to connect ... after 10 attempts' error.
C2_AlwaysNotFound ==
    \A c \in Calls :
        ( /\ pc[c] = "done" /\ Class(last[c]) = "404"
          /\ retried[c] \subseteq {"404"} )
        => /\ Requests(c) = maxRetries
           /\ apiOutcome[c] = Throw(NotFoundErrorOf(last[c]))
           /\ apiOutcome[c].error # FailedToConnectError

\* a non-2xx response that is not a 404, or a 2xx envelope with an error
\* whose status is not 404
IsOtherBackendError(res) ==
    /\ res.kind = "http"
    /\ \/ ~res.ok /\ res.status # HTTP_NOT_FOUND
       \/ /\ res.ok /\ res.body.kind = "envelope" /\ res.body.error.present
          /\ res.body.error.status # HTTP_NOT_FOUND

\* C3: a backend error that is not a 404 ends the call at once: fetchApi
\* throws, takes no delay and issues no further request, whatever the attempt
\* and whatever the backend's message.
C3_OtherErrorFailsAtOnce ==
    \A c \in Calls :
        (Answered(c) /\ IsOtherBackendError(last[c]))
        => /\ pc[c] = "done"
           /\ apiOutcome[c].kind = "throw"
           /\ log[c][Len(log[c])] = RequestEvent

IsRecognisedRejection(res) ==
    /\ res.kind = "rejected"
    /\ \/ res.error.type = "TypeError" /\ Includes(res.error.message, "fetch")
       \/ Includes(res.error.message, "Failed to connect")

C5_OneFixedDelayBetweenRequests ==
    \A c \in Calls :
        /\ \A i \in 1..Len(log[c]) :
              IF i % 2 = 1 THEN log[c][i] = RequestEvent
                           ELSE log[c][i] = DelayEvent(1000)
        /\ pc[c] \in {"awaitFetch", "done"} => Len(log[c]) % 2 = 1
        /\ pc[c] = "awaitDelay" => Len(log[c]) % 2 = 0
        /\ pc[c] = "idle" => log[c] = <<>>

\* C5 witness: a call that ended after ten requests and nine delays.
C5_Witness ==
    \E c \in Calls :
        pc[c] = "done" /\ Requests(c) = maxRetries /\ Delays(c) = maxRetries - 1

(***************************************************************************)
(* Properties of the helpers.                                               *)
(***************************************************************************)
\* a 2xx envelope without error whose data is d
IsDataEnvelope(res, d) ==
    /\ res.kind = "http" /\ res.ok /\ res.body.kind = "envelope"
    /\ ~res.body.error.present /\ res.body.data = d

\* C6: absent content is a result, not an error, and is not retried: when the
\* first response is a 2xx envelope with data null, fetchSingleType returns
\* null after that one request; when it is a 2xx envelope with data [],
\* fetchCollection returns the empty array after that one request.
C6_AbsenceIsBenign ==
    \A c \in Calls :
        /\ ( /\ Answered(c) /\ attempt[c] = 0
             /\ opts[c].variant = "fetchSingleType"
             /\ IsDataEnvelope(last[c], Null) )
           => /\ pc[c] = "done" /\ outcome[c] = Return(Null)
              /\ log[c] = <<RequestEvent>>
        /\ ( /\ Answered(c) /\ attempt[c] = 0
             /\ opts[c].variant = "fetchCollection"
             /\ IsDataEnvelope(last[c], Arr(<<>>)) )
           => /\ pc[c] = "done" /\ outcome[c] = Return(Arr(<<>>))
              /\ log[c] = <<RequestEvent>>

\* C6 witness: fetchCollection has returned the empty array it was sent.
C6_Witness ==
    \E c \in Calls :
        /\ pc[c] = "done" /\ opts[c].variant = "fetchCollection"
        /\ IsDataEnvelope(last[c], Arr(<<>>)) /\ Requests(c) = 1
        /\ outcome[c].kind = "return"

\* s is the sequence name somewhere in the text s
Names(s, name) ==
    \E i \in 0..(Len(s) - Len(name)) : SubSeq(s, i + 1, i + Len(name)) = name

\* C7: the safe variants never throw: when fetchApi fails (retries exhausted,
\* backend error, rejected request, malformed body) safeFetchSingleType
\* returns null and safeFetchCollection returns [], after exactly one warning
\* that names contentTypeName (the endpoint when no name is given); when
\* fetchApi succeeds they return its value and log nothing.
C7_SafeNeverThrows ==
    \A c \in Calls :
        (pc[c] = "done" /\ IsSafe(opts[c].variant))
        => /\ outcome[c].kind = "return"
           /\ apiOutcome[c].kind = "throw"
              => /\ outcome[c].value =
                     (IF opts[c].variant = "safeFetchCollection"
                      THEN Arr(<<>>) ELSE Null)
                 /\ Len(warnings[c]) = 1
                 /\ Names(warnings[c][1],
                          IF opts[c].contentTypeName # <<>>
                          THEN opts[c].contentTypeName ELSE opts[c].endpoint)
                 /\ Names(warnings[c][1], apiOutcome[c].error.message)
           /\ apiOutcome[c].kind = "return"
              => outcome[c] = apiOutcome[c] /\ warnings[c] = <<>>

\* C7 witness: safeFetchCollection after ten rejected requests.
C7_Witness ==
    \E c \in Calls :
        /\ pc[c] = "done" /\ opts[c].variant = "safeFetchCollection"
        /\ apiOutcome[c] = Throw(FailedToConnectError)
        /\ Len(warnings[c]) = 1

\* the text starts with '<contentTypeName> content not found'
StartsWithNotFound(s, contentTypeName) ==
    /\ Len(s) > Len(contentTypeName)
    /\ SubSeq(s, 1, Len(contentTypeName)) = contentTypeName
    /\ TokenStartsWith(s[Len(contentTypeName) + 1], " content not found")

\* C8: the validating variants never return absent content:
\* fetchSingleTypeWithValidation never returns null,
\* fetchCollectionWithValidation never returns null, a non-array or an empty
\* array; when fetchApi yields null (single or collection) or an empty
\* collection the call throws an error whose message starts with
\* '<contentTypeName> content not found'.
C8_ValidatingNeverAbsent ==
    \A c \in Calls :
        (pc[c] = "done" /\ IsValidating(opts[c].variant))
        => /\ outcome[c].kind \in {"return", "throw"}
           /\ outcome[c].kind = "return"
              => /\ outcome[c].value # Null
                 /\ opts[c].variant = "fetchCollectionWithValidation"
                    => /\ outcome[c].value.t = "array"
                       /\ Len(outcome[c].value.items) > 0
           /\ ( /\ apiOutcome[c].kind = "return"
                /\ \/ apiOutcome[c].value = Null
                   \/ /\ opts[c].variant = "fetchCollectionWithValidation"
                      /\ apiOutcome[c].value = Arr(<<>>) )
              => /\ outcome[c].kind = "throw"
                 /\ StartsWithNotFound(outcome[c].error.message,
                                       opts[c].contentTypeName)

\* C8 witness: fetchCollectionWithValidation was sent an empty collection.
C8_Witness ==
    \E c \in Calls :
        /\ pc[c] = "done"
        /\ opts[c].variant = "fetchCollectionWithValidation"
        /\ opts[c].contentTypeName # <<>>
        /\ apiOutcome[c] = Return(Arr(<<>>))
        /\ outcome[c].kind = "throw"

\* C9: in the validating variants every error thrown by fetchApi is thrown
\* again wrapped as 'Failed to fetch content from Strapi: <message>. Make sure
\* Strapi is running ...', whatever the backend's message, and the variant's
\* own content-absence error is thrown as created.
C9_EveryFetchFailureWrapped ==
    \A c \in Calls :
        (pc[c] = "done" /\ IsValidating(opts[c].variant))
        => /\ apiOutcome[c].kind = "throw"
              => /\ outcome[c].kind = "throw"
                 /\ outcome[c].error.message[1] =
                        "Failed to fetch content from Strapi: "
                 /\ SubSeq(outcome[c].error.message, 2,
                           1 + Len(apiOutcome[c].error.message))
                        = apiOutcome[c].error.message
           /\ ( /\ apiOutcome[c].kind = "return"
                /\ outcome[c].kind = "throw" )
              => outcome[c].error.message[1] #
                     "Failed to fetch content from Strapi: "

(***************************************************************************)
(* SpecPopulate: fetchSingleType and fetchCollection are called with every  *)
(* populate argument and query of the bounds, up to the first request.      *)
(***************************************************************************)
InvokePlain(c) ==
    \E v \in {"fetchSingleType", "fetchCollection"},
       q \in Queries, p \in Populates :
        Invoke(c, Options(v, <<"about-page">>, q, p, <<>>))

NextPopulate == InvokePlain("c1")

SpecPopulate == Init /\ [][NextPopulate]_vars

\* the values of the entries named key of a query, in order
QueryValues(query, key) ==
    LET named == SelectSeq(query, LAMBDA kv : kv[1] = key)
    IN  [i \in 1..Len(named) |-> named[i][2]]

\* the values of the query parameters named key of a request, in order
ParamValues(url, key) == QueryValues(url.params, key)

RECURSIVE JoinedLen(_)
\* the length of the items joined by one separator character
JoinedLen(items) ==
    IF Len(items) = 0 THEN 0
    ELSE IF Len(items) = 1 THEN Len(items[1])
    ELSE Len(items[1]) + 1 + JoinedLen(Tail(items))

\* the position before item i in the joined text
ItemOffset(items, i) ==
    IF i = 1 THEN 0 ELSE JoinedLen(SubSeq(items, 1, i - 1)) + 1

\* v is the items in the given order with one comma between neighbours
IsCommaJoined(v, items) ==
    /\ Len(v) = JoinedLen(items)
    /\ \A i \in 1..Len(items) :
          /\ \A k \in 1..Len(items[i]) :
                v[ItemOffset(items, i) + k] = items[i][k]
          /\ i < Len(items)
             => v[ItemOffset(items, i) + Len(items[i]) + 1] = ","

\* what C10 says of the populate parameter for the other populate arguments
PopulateIsSent(c) ==
    LET p == opts[c].populate
        sent == ParamValues(request[c], "populate")
    IN  /\ (p = Str(<<>>) \/ p = Arr(<<>>)) => sent = << <<"*">> >>
        /\ (p.t = "array" /\ p # Arr(<<>>))
           => Len(sent) = 1 /\ IsCommaJoined(sent[1], p.items)
        /\ (p.t = "string" /\ p # Str(<<>>)) => sent = <<p.chars>>

ProxyGet ==
    \E imageUrl \in ProxyParams, strapiUrl \in StrapiUrls :
        LET r == CheckRequest(imageUrl, strapiUrl)
            p == [proxy EXCEPT !.imageUrl = imageUrl, !.strapiUrl = strapiUrl]
        IN  /\ proxy.pc = "idle"
            /\ proxy' =
                 CASE r.kind = "answer" ->
                        [p EXCEPT !.pc = "done", !.response = r.response]
                   [] r.kind = "raise" ->
                        [p EXCEPT !.pc = "done",
                                  !.raised = Append(@, r.error),
                                  !.errors = Append(@, r.error),
                                  !.response = InternalServerError(r.error)]
                   [] r.kind = "fetch" ->
                        [p EXCEPT !.pc = "awaitFetch",
                                  !.upstream = Append(@, r.url)]
            /\ UNCHANGED <<pc, opts, request, attempt, lastError, log, last,
                           retried, apiOutcome, outcome, warnings, media>>

\* An await inside the try block rejects with e: the catch block (lines
\* 63-66) logs e and answers.
ProxyCatch(e) ==
    /\ proxy' = [proxy EXCEPT !.pc = "done",
                              !.raised = Append(@, e),
                              !.errors = Append(@, e),
                              !.response = InternalServerError(e)]
    /\ UNCHANGED <<pc, opts, request, attempt, lastError, log, last,
                   retried, apiOutcome, outcome, warnings, media>>

\* await fetch(decodedUrl) rejects
UpstreamRejects ==
    /\ proxy.pc = "awaitFetch"
    /\ \E e \in UpstreamFailures : ProxyCatch(e)

\* await fetch(decodedUrl) resolves with a response that is not ok (lines
\* 45-47)
UpstreamNotOk ==
    /\ proxy.pc = "awaitFetch"
    /\ \E status \in UpstreamErrorStatuses, ct \in UpstreamContentTypes :
           proxy' = [proxy EXCEPT
                       !.pc = "done",
                       !.upstreamResponse = UpstreamResponse(FALSE, status, ct),
                       !.response = FailedToFetchImage(status)]
    /\ UNCHANGED <<pc, opts, request, attempt, lastError, log, last,
                   retried, apiOutcome, outcome, warnings, media>>

\* await fetch(decodedUrl) resolves with a 2xx response: the handler reads
\* the body (line 50)
UpstreamOk ==
    /\ proxy.pc = "awaitFetch"
    /\ \E status \in { HTTP_OK, 206 }, ct \in UpstreamContentTypes :
           proxy' = [proxy EXCEPT
                       !.pc = "awaitBody",
                       !.upstreamResponse = UpstreamResponse(TRUE, status, ct)]
    /\ UNCHANGED <<pc, opts, request, attempt, lastError, log, last,
                   retried, apiOutcome, outcome, warnings, media>>

\* await response.arrayBuffer() resolves: lines 51-61
BodyRead ==
    /\ proxy.pc = "awaitBody"
    /\ \E imageData \in UpstreamBodies :
           proxy' = [proxy EXCEPT
                       !.pc = "done",
                       !.upstreamBody = imageData,
                       !.response =
                           ImageResponse(imageData,
                               ContentTypeOf(proxy.upstreamResponse.contentType))]
    /\ UNCHANGED <<pc, opts, request, attempt, lastError, log, last,
                   retried, apiOutcome, outcome, warnings, media>>

\* await response.arrayBuffer() rejects
BodyFails ==
    /\ proxy.pc = "awaitBody"
    /\ \E e \in UpstreamFailures : ProxyCatch(e)

NextProxy ==
    \/ ProxyGet
    \/ UpstreamRejects
    \/ UpstreamNotOk
    \/ UpstreamOk
    \/ BodyRead
    \/ BodyFails

SpecProxy == Init /\ [][NextProxy]_vars

(***************************************************************************)
(* Claims about the image proxy endpoint.                                   *)
(***************************************************************************)
ProxyDone == proxy.pc = "done"
HasUrlParameter == Truthy(proxy.imageUrl)
DecodedUrl == decodeURIComponent(proxy.imageUrl.chars)
IsDecodable == HasUrlParameter /\ CanDecode(proxy.imageUrl.chars)
\* the decoded value starts with http:// or with https://
HasHttpScheme ==
    /\ DecodedUrl # <<>>
    /\ \/ TokenStartsWith(DecodedUrl[1], "http://")
       \/ TokenStartsWith(DecodedUrl[1], "https://")
OnAllowList ==
    \/ IsStrapiApiUrl(DecodedUrl, proxy.strapiUrl)
    \/ IsStrapiMediaCdn(DecodedUrl)
ProxyAnswered(status, text) ==
    /\ proxy.response.status = status
    /\ proxy.response.body = TextBody(text)

\* C11: the endpoint requests the upstream only after every check of its
\* input has passed.  A request without a url parameter, or with an empty
\* one, is answered 400 'Missing url parameter'; one whose decoded value
\* starts with neither http:// nor https:// is answered 400; one whose
\* decoded value is not on the allow-list is answered 400; and in none of
\* these cases is anything requested from the upstream.
C11_ChecksBeforeUpstream ==
    /\ proxy.upstream # <<>> =>
           /\ IsDecodable
           /\ HasHttpScheme
           /\ OnAllowList
           /\ proxy.upstream = <<DecodedUrl>>
    /\ proxy.pc # "idle" /\ ~HasUrlParameter =>
           /\ ProxyDone
           /\ ProxyAnswered(HTTP_BAD_REQUEST, <<"Missing url parameter">>)
           /\ proxy.upstream = <<>>
    /\ proxy.pc # "idle" /\ IsDecodable /\ ~HasHttpScheme =>
           /\ ProxyDone
           /\ proxy.response.status = HTTP_BAD_REQUEST
           /\ proxy.upstream = <<>>
    /\ proxy.pc # "idle" /\ IsDecodable /\ ~OnAllowList =>
           /\ ProxyDone
           /\ proxy.response.status = HTTP_BAD_REQUEST
           /\ proxy.upstream = <<>>

\* an ftp URL that names the backend in its query was refused unrequested
C11_Witness ==
    /\ ProxyDone
    /\ proxy.strapiUrl = Str(STRAPI_URL)
    /\ proxy.imageUrl =
           Str(<<"ftp://example.com", "/uploads/", "image", ".jpg", "?", "ref",
                 "=", "https://api.example.com">>)
    /\ ProxyAnswered(HTTP_BAD_REQUEST, <<"Invalid image URL: must be HTTP(S)">>)
    /\ proxy.upstream = <<>>

\* The origins of the model whose host is the backend's (when the backend
\* origin is configured) or lies under .media.strapiapp.com.
AllowedOrigins(strapiUrl) ==
    { "https://example.media.strapiapp.com" }
        \cup (IF Truthy(strapiUrl) THEN { strapiUrl.chars[1] } ELSE {})
\* the scheme and host of a URL are its first token
OriginOf(url) == url[1]

\* C12: the endpoint is an allow-list and no open proxy.  A URL is requested
\* from the upstream only if its host is the configured backend origin or a
\* host under .media.strapiapp.com; every https:// URL with another host is
\* answered 400 and never requested.
C12_OnlyAllowedHostsFetched ==
    /\ \A i \in 1..Len(proxy.upstream) :
           OriginOf(proxy.upstream[i]) \in AllowedOrigins(proxy.strapiUrl)
    /\ /\ ProxyDone
       /\ IsDecodable
       /\ HasPrefix(DecodedUrl, "https://")
       /\ OriginOf(DecodedUrl) \notin AllowedOrigins(proxy.strapiUrl)
       => proxy.response.status = HTTP_BAD_REQUEST /\ proxy.upstream = <<>>

UpstreamAnswered == proxy.upstreamResponse # NoUpstreamResponse

Served ==
    /\ ProxyDone
    /\ UpstreamAnswered
    /\ proxy.upstreamResponse.ok
    /\ proxy.raised = <<>>

\* C14: for an allowed URL that the upstream serves with a 2xx response, the
\* endpoint answers 200 with the upstream's body unchanged and with the
\* headers Content-Type (the upstream's content type, image/jpeg when it has
\* none), Cache-Control 'public, max-age=31536000, immutable',
\* X-Content-Type-Options 'nosniff', Access-Control-Allow-Origin '*' and
\* Access-Control-Allow-Methods 'GET'.
C14_ServedWithAllHeaders ==
    Served =>
        /\ proxy.response.status = HTTP_OK
        /\ proxy.response.body = BytesBody(proxy.upstreamBody)
        /\ <<"Content-Type",
             IF proxy.upstreamResponse.contentType \in { Null, Str(<<>>) }
             THEN <<"image/jpeg">>
             ELSE proxy.upstreamResponse.contentType.chars>>
               \in proxy.response.headers
        /\ <<"Cache-Control", <<"public, max-age=31536000, immutable">>>>
               \in proxy.response.headers
        /\ <<"X-Content-Type-Options", <<"nosniff">>>>
               \in proxy.response.headers
        /\ <<"Access-Control-Allow-Origin", <<"*">>>>
               \in proxy.response.headers
        /\ <<"Access-Control-Allow-Methods", <<"GET">>>>
               \in proxy.response.headers

InitMedia == InitFetch /\ proxy = ProxyIdle /\ media \in MediaCalls

Returns(result) ==
    /\ media.pc = "called"
    /\ media' = [media EXCEPT !.pc = "returned", !.result = result]
    /\ UNCHANGED <<pc, opts, request, attempt, lastError, log, last, retried,
                   apiOutcome, outcome, warnings, proxy>>

ApplyGetStrapiMedia ==
    /\ media.op = "getStrapiMedia"
    /\ Returns(getStrapiMedia(media.image.url, media.useProxy, media.dev))

ApplyFormatImageUrlWithSize ==
    /\ media.op = "formatImageUrlWithSize"
    /\ Returns(formatImageUrlWithSize(media.image, media.width, media.format,
                                      media.useProxy, media.dev))

NextMedia == ApplyGetStrapiMedia \/ ApplyFormatImageUrlWithSize

SpecMedia == InitMedia /\ [][NextMedia]_vars

(***************************************************************************)
(* Claims about the media URL resolver.                                     *)
(***************************************************************************)
Sized == media.pc = "returned" /\ media.op = "formatImageUrlWithSize"

\* the tiers of the descriptor that are there
Present ==
    IF Truthy(media.image.formats)
    THEN { n \in TierSet : media.image.formats.tiers[n] # Undefined }
    ELSE {}
WidthOf(n) == media.image.formats.tiers[n].width
\* the width of the tier lies in [width, width * 1.25]
InBand(n) == media.width <= WidthOf(n) /\ 4 * WidthOf(n) <= 5 * media.width
\* the resolved URL of a tier
Resolved(n) ==
    getStrapiMedia(Str(media.image.formats.tiers[n].url), media.useProxy,
                   media.dev)

\* C16: formatImageUrlWithSize, tolerance band.  Whenever some present tier
\* has a width in [width, width * 1.25], the result is the resolved URL of a
\* tier in that band, and of one whose width is the smallest in the band.
C16_SmallestInBand ==
    Sized /\ (\E n \in Present : InBand(n)) =>
        \E n \in Present :
            /\ InBand(n)
            /\ \A k \in Present : InBand(k) => WidthOf(n) <= WidthOf(k)
            /\ media.result = Resolved(n)

\* large 5 and medium 4 are both in the band of width 4: medium is chosen
C16_Witness ==
    /\ Sized
    /\ media.width = 4
    /\ Present = { "large", "medium" }
    /\ WidthOf("large") = 5
    /\ WidthOf("medium") = 4
    /\ ~media.useProxy
    /\ media.result = STRAPI_URL \o TierUrl("medium")

\* C17: formatImageUrlWithSize, oversized fallback.  Whenever no present
\* tier has a width in [width, width * 1.25] but some present tier has a
\* width >= width, the result is the resolved URL of the tier of smallest
\* width among those of width >= width.
C17_SmallestOversized ==
    /\ Sized
    /\ \A n \in Present : ~InBand(n)
    /\ \E n \in Present : WidthOf(n) >= media.width
    => \E n \in Present :
           /\ WidthOf(n) >= media.width
           /\ \A k \in Present :
                  WidthOf(k) >= media.width => WidthOf(n) <= WidthOf(k)
           /\ media.result = Resolved(n)

\* width 2 with small 1, medium 3 and large 5: medium is chosen
C17_Witness ==
    /\ Sized
    /\ media.width = 2
    /\ Present = { "large", "medium", "small" }
    /\ WidthOf("large") = 5
    /\ WidthOf("medium") = 3
    /\ WidthOf("small") = 1
    /\ ~media.useProxy
    /\ media.result = STRAPI_URL \o TierUrl("medium")

\* C18: formatImageUrlWithSize, upscale fallback.  Whenever there are
\* present tiers and each of them has a width < width, the result is the
\* resolved URL of the tier of largest width.
C18_LargestWhenAllSmaller ==
    /\ Sized
    /\ Present # {}
    /\ \A n \in Present : WidthOf(n) < media.width
    => \E n \in Present :
           /\ \A k \in Present : WidthOf(k) <= WidthOf(n)
           /\ media.result = Resolved(n)

\* width 5 with large 1, medium 2 and small 3: small is chosen
C18_Witness ==
    /\ Sized
    /\ media.width = 5
    /\ Present = { "large", "medium", "small" }
    /\ WidthOf("large") = 1
    /\ WidthOf("medium") = 2
    /\ WidthOf("small") = 3
    /\ ~media.useProxy
    /\ media.result = STRAPI_URL \o TierUrl("small")

\* the values of a key in the query of a URL text, in order
ValuesIn(text, key) == QueryValues(ParseUrl(text).params, key)
\* the pairs of the query of a URL text under other keys than width and
\* format
OtherPairs(text) ==
    SelectSeq(ParseUrl(text).params,
              LAMBDA p : p[1] \notin { "width", "format" })
\* the base-origin-resolved original URL
ResolvedOriginal ==
    IF HasPrefix(media.image.url.chars, "/")
    THEN STRAPI_URL \o media.image.url.chars
    ELSE media.image.url.chars
\* text is the resolved original URL with width and format set as requested
IsSizedOriginal(text) ==
    /\ ParseUrl(text).base = ParseUrl(ResolvedOriginal).base
    /\ ValuesIn(text, "width") = <<ToString(media.width)>>
    /\ ValuesIn(text, "format") = <<media.format>>
    /\ OtherPairs(text) = OtherPairs(ResolvedOriginal)
\* no usable tier, and an original URL that parses once resolved
NoTierAndParseable ==
    /\ Sized
    /\ Present = {}
    /\ CanParseUrl(ResolvedOriginal)

C20_BaseResolution ==
    /\ media.pc = "returned"
    /\ media.op = "getStrapiMedia"
    /\ ~media.useProxy \/ media.dev
    => media.result =
           IF media.image.url \in { Null, Str(<<>>) } THEN <<>>
           ELSE IF TokenStartsWith(media.image.url.chars[1], "/")
           THEN STRAPI_URL \o media.image.url.chars
           ELSE media.image.url.chars

C20_Witness ==
    /\ media.pc = "returned"
    /\ media.op = "getStrapiMedia"
    /\ ~media.useProxy
    /\ media.image.url = Str(DefaultUrl)
    /\ media.result = <<"https://api.example.com", "/uploads/", "test-image",
                        ".jpg">>

\* the text has the form of a proxy URL
IsProxyForm(text) == text # <<>> /\ Head(text) = "/api/image-proxy?url="
\* the base-origin-resolved url of a call ('' for null)
ResolvedUrl ==
    IF media.image.url \in { Null, Str(<<>>) } THEN <<>> ELSE ResolvedOriginal
\* the text ends in an image extension, or has one right before its query
EndsInImageExtension(text) ==
    \E i \in 1..Len(text) :
        /\ text[i] \in ImageExtensions
        /\ i = Len(text) \/ text[i + 1] = "?"

C22_ProxyOnlyForImages ==
    Sized /\ IsProxyForm(media.result) =>
        /\ media.useProxy
        /\ ~media.dev
        /\ EndsInImageExtension(decodeURIComponent(Tail(media.result)))
        /\ Present = {} => EndsInImageExtension(ResolvedUrl)

\* the resolved original URL does not start with a scheme
Unparseable ==
    ~(\E scheme \in { "http://", "https://" } :
          ResolvedUrl # <<>> /\ TokenStartsWith(ResolvedUrl[1], scheme))
NoTierAndUnparseable == Sized /\ Present = {} /\ Unparseable

\* C23 as stated: for a descriptor without a usable tier whose resolved
\* original URL does not parse as an absolute URL, formatImageUrlWithSize
\* returns the original URL unchanged, not proxied and without width or
\* format parameters, for every width, format and useProxy.
C23_UnparseableReturnedUnchanged ==
    NoTierAndUnparseable =>
        media.result = (IF Truthy(media.image.url)
                        THEN media.image.url.chars ELSE <<>>)

\* C23, amended: the original URL is returned without width or format
\* parameters, unchanged when useProxy is false, in development mode or
\* when the URL has no image extension, and in proxy form otherwise.
C23_UnparseableUnsized ==
    NoTierAndUnparseable =>
        IF media.useProxy /\ ~media.dev
           /\ EndsInImageExtension(media.image.url.chars)
        THEN media.result = <<"/api/image-proxy?url=">>
                                \o encodeURIComponent(media.image.url.chars)
        ELSE media.result = media.image.url.chars

\* an unparseable URL with an image extension, returned as it is
C23_Witness ==
    /\ Sized
    /\ media.image.url = Str(<<"uploads/", "image", ".jpg">>)
    /\ ~media.useProxy
    /\ media.width = 3
    /\ media.result = <<"uploads/", "image", ".jpg">>

SizedWithTiers == Sized /\ Present # {}
\* the place of a tier in the order large, medium, small, thumbnail
Priority == [large |-> 1, medium |-> 2, small |-> 3, thumbnail |-> 4]
\* the tiers a text is the resolved URL of
TiersOf(text) == { n \in Present : text = Resolved(n) }

\* The two-step reference at width w: the tiers of smallest width among
\* those of width >= w if there is one, and those of largest width
\* otherwise; among them, the first in the order of the tiers.
ReferenceTiers(w) ==
    LET reaching == { n \in Present : WidthOf(n) >= w }
        best == IF reaching # {}
                THEN { n \in reaching :
                         \A k \in reaching : WidthOf(n) <= WidthOf(k) }
                ELSE { n \in Present :
                         \A k \in Present : WidthOf(k) <= WidthOf(n) }
    IN  { n \in best : \A k \in best : Priority[n] <= Priority[k] }

\* C26: the 1.25 tolerance never changes the result.  For every width and
\* every non-empty set of present tiers, the tier chosen by the three steps
\* (band, then >= width, then largest) is the tier of the two-step
\* reference: the smallest tier of width >= width if there is one, and the
\* largest tier otherwise.
C26_BandIsRedundant ==
    SizedWithTiers =>
        \E n \in ReferenceTiers(media.width) : media.result = Resolved(n)

\* large 5 lies in the band of width 4, small 3 below it
C26_Witness ==
    /\ Sized
    /\ media.width = 4
    /\ Present = { "large", "small" }
    /\ WidthOf("large") = 5
    /\ WidthOf("small") = 3
    /\ ~media.useProxy
    /\ media.result = STRAPI_URL \o TierUrl("large")

\* C27: ties are broken by the order large, medium, small, thumbnail.
\* Whenever the tier chosen has the same width as another present tier, the
\* chosen one comes first in that order, in each of the three steps.
C27_TiesByPriority ==
    SizedWithTiers =>
        /\ TiersOf(media.result) # {}
        /\ \A k \in TiersOf(media.result), n \in Present :
               WidthOf(n) = WidthOf(k) => Priority[k] <= Priority[n]

\* medium and thumbnail, both of width 2 and below width 4: medium is chosen
C27_Witness ==
    /\ Sized
    /\ media.width = 4
    /\ Present = { "medium", "thumbnail" }
    /\ WidthOf("medium") = 2
    /\ WidthOf("thumbnail") = 2
    /\ ~media.useProxy
    /\ media.result = STRAPI_URL \o TierUrl("medium")

\* C28: whenever a tier is present, the result is derived from the url of a
\* present tier and from nothing else: the original url of the descriptor
\* is not used, the format argument has no effect, and no width or format
\* parameter is added.
C28_OnlyTiersUsed ==
    SizedWithTiers =>
        /\ TiersOf(media.result) # {}
        /\ \A fmt \in ImageFormats, u \in MediaUrls :
               formatImageUrlWithSize(Image(u, media.image.formats),
                                      media.width, fmt, media.useProxy,
                                      media.dev) = media.result
        /\ \A i \in 1..Len(media.result) :
               media.result[i] \notin { "width", "format" }

\* one tier, smaller than the width asked for, and another original URL
C28_Witness ==
    /\ Sized
    /\ media.width = 5
    /\ media.format = "png"
    /\ media.image.url = Str(<<"https://cdn.example.com", "/", "image", ".jpg">>)
    /\ Present = { "medium" }
    /\ WidthOf("medium") = 2
    /\ ~media.useProxy
    /\ media.result = STRAPI_URL \o TierUrl("medium")

\* the widths of the tiers chosen at width w
ChosenWidths(w) ==
    { WidthOf(n) : n \in TiersOf(formatImageUrlWithSize(
                             media.image, w, media.format, media.useProxy,
                             media.dev)) }

\* C29: the selection is monotone in the width.  For every non-empty set of
\* tiers and all widths w1 <= w2, the width of the tier chosen for w1 is at
\* most the width of the tier chosen for w2.
C29_MonotoneInWidth ==
    SizedWithTiers =>
        \A w2 \in media.width..MaxWidth :
            /\ ChosenWidths(w2) # {}
            /\ \A a \in { WidthOf(n) : n \in TiersOf(media.result) },
                  b \in ChosenWidths(w2) : a <= b

\* at width 2 the tier of width 3 is chosen, at width 4 the one of width 5
C29_Witness ==
    /\ Sized
    /\ media.width = 2
    /\ Present = { "large", "medium", "small" }
    /\ WidthOf("large") = 5
    /\ WidthOf("medium") = 3
    /\ WidthOf("small") = 1
    /\ media.useProxy
    /\ media.dev
    /\ media.result = STRAPI_URL \o TierUrl("medium")
    /\ ChosenWidths(4) = { 5 }

\* the resolver's proxy URL for a url of the backend origin
ProxyUrlOf(u) == getStrapiMedia(u, TRUE, FALSE)
\* the urls of the model that resolve to an absolute image URL of the backend
BackendImageUrls ==
    { u \in MediaUrls :
        /\ Truthy(u)
        /\ FullUrl(u.chars)[1] = STRAPI_URL[1]
        /\ IsProxyForm(ProxyUrlOf(u)) }

\* C30: resolver and proxy round-trip.  For every absolute image URL u that
\* the resolver turns into '/api/image-proxy?url=' + encodeURIComponent(u),
\* the endpoint that handles this request passes its checks and requests
\* exactly u from the upstream, also when u holds percent-encoded
\* characters.  (Stated for the URLs u of the backend origin.)
C30_RoundTrip ==
    \A u \in BackendImageUrls :
        /\ proxy.pc # "idle"
        /\ proxy.strapiUrl = Str(STRAPI_URL)
        /\ proxy.imageUrl = SearchParamsGet(ProxyUrlOf(u))
        => proxy.upstream = <<FullUrl(u.chars)>>


(***************************************************************************)
(* SpecFair: Spec under the scheduling the runtime gives one call.  Every   *)
(* pending request settles (the precondition of the termination claim) and  *)
(* every setTimeout of line 44, 57 or 84 fires.                             *)
(***************************************************************************)
RequestSettles(c) == FetchRejects(c) \/ ResponseNotOk(c) \/ ResponseOk(c)

SpecFair ==
    /\ Spec
    /\ WF_vars(RequestSettles("c1"))
    /\ WF_vars(TimerFires("c1"))

\* the 10th request of the call has been answered and the call is over
Exhausted(c) == pc[c] = "done" /\ Requests(c) = maxRetries

\* C25: whatever the backend answers, a call whose requests all settle ends
\* (returns or throws) after at most 10 requests and at most 9 delays; 404s
\* and network failures use up the same attempts, so that after the 10th
\* request the failure is the one of the 10th answer alone: a recognised
\* network failure gives the 'Failed to connect ... after 10 attempts' error
\* and a 404 gives the error derived from that 404, whatever was retried
\* before.
C25_EndsWithinTenAttempts ==
    /\ [](Requests("c1") <= maxRetries /\ Delays("c1") <= maxRetries - 1)
    /\ []( Exhausted("c1") =>
             /\ apiOutcome["c1"].kind \in {"return", "throw"}
             /\ IsRecognisedRejection(last["c1"])
                => apiOutcome["c1"] = Throw(FailedToConnectError)
             /\ ( /\ Class(last["c1"]) = "404"
                  /\ ~IsNetworkError(NotFoundErrorOf(last["c1"])) )
                => apiOutcome["c1"] = Throw(NotFoundErrorOf(last["c1"])) )
    /\ (pc["c1"] # "idle") ~> (pc["c1"] = "done")

\* nine 404s, then a network failure on the 10th request
C25_Witness ==
    /\ Exhausted("c1") /\ Delays("c1") = maxRetries - 1
    /\ retried["c1"] = {"404"}
    /\ IsRecognisedRejection(last["c1"])
    /\ apiOutcome["c1"] = Throw(FailedToConnectError)


(***************************************************************************)
(* SpecConcurrent: two invocations of fetchApi in flight at once, as with   *)
(* Promise.all over two helpers.  Each runs the code of lines 13-99 on its  *)
(* own locals (url, lastError, attempt are declared inside the function,    *)
(* lines 19-37); the event loop interleaves them at their await points: the *)
(* fetch of line 39 and the delays of lines 44, 57 and 84.  The backend     *)
(* answers every request with any of four responses, one of each kind.      *)
(***************************************************************************)
ConcurrentResponses ==
    { Rejected(Err("TypeError", <<"fetch failed">>)),
      Http(FALSE, HTTP_NOT_FOUND, <<"Not Found">>, InvalidJson),
      Http(FALSE, 500, <<"Internal Server Error">>, InvalidJson),
      Http(TRUE, 200, <<"OK">>, Envelope(Obj(1), NoEnvelopeError)) }

InvokeConcurrent(c) ==
    \E ep \in Endpoints :
        Invoke(c, Options("fetchSingleType", ep, <<>>, Undefined, <<>>))

RequestAnswered(c) == \E res \in ConcurrentResponses : Settle(c, res)

NextConcurrent ==
    \E c \in Calls :
        \/ InvokeConcurrent(c)
        \/ RequestAnswered(c)
        \/ TimerFires(c)

SpecConcurrent == Init /\ [][NextConcurrent]_vars

\* everything one invocation holds: its arguments, its locals, its position,
\* what it has issued and seen, and how it settled
Own(c) ==
    <<pc[c], opts[c], request[c], attempt[c], lastError[c], log[c], last[c],
      retried[c], apiOutcome[c], outcome[c], warnings[c]>>

\* C24: concurrent invocations are independent.  In every interleaving, a
\* step of one call (a response it receives, a delay that ends) leaves the
\* attempt counter, the last error, the result and every other part of the
\* other call as they were; and each call's counter is the number of its own
\* delays, its last error the one of its own latest failed request, and its
\* result the one that its own latest response gives at its own attempt.
C24_CallsAreIndependent ==
    /\ [][\E c \in Calls : \A d \in Calls \ {c} : Own(d)' = Own(d)]_vars
    /\ [](\A c \in Calls :
            LET o == FetchApiOptions(opts[c])
                t == TryBlock(attempt[c], last[c], o)
            IN  /\ pc[c] # "idle" => Requests(c) = attempt[c] + 1
                /\ pc[c] \in {"awaitFetch", "done"}
                   => Delays(c) = attempt[c]
                /\ pc[c] = "awaitDelay" => Delays(c) = attempt[c] + 1
                /\ (Answered(c) /\ t.kind = "throw")
                   => lastError[c] = ToError(t.error)
                /\ pc[c] = "done"
                   => apiOutcome[c] = LoopBody(attempt[c], last[c], o))

\* one call has returned at its third request, after a 404 and a network
\* failure, while the other, started on another endpoint, has failed at its
\* first request
C24_Witness ==
    /\ pc["c1"] = "done" /\ apiOutcome["c1"].kind = "return"
    /\ attempt["c1"] = 2 /\ retried["c1"] = {"404", "rejected"}
    /\ pc["c2"] = "done" /\ apiOutcome["c2"].kind = "throw"
    /\ attempt["c2"] = 0
    /\ opts["c1"] # opts["c2"]

====
